---- MODULE Spec2Model ----
(***************************************************************************)
(* Model of auditmiddleware/_api.py: the resource-grammar compiler         *)
(* (_put_hier, _parse_resources) and the path walk that maps a request to  *)
(* a CADF event (create_event, _build_event, _get_action,                  *)
(* _get_custom_action, _create_event).                                     *)
(*                                                                         *)
(* Python strings are sequences of symbols.  "/" and "*" are symbols of    *)
(* their own, so that find, slicing, startswith and replace are computed   *)
(* as the code computes them; the other symbols are opaque chunks of       *)
(* characters ("server" followed by "s" is the string "servers").          *)
(* Python's None is the one-symbol sequence None, which no string of the   *)
(* model contains.  Dictionaries are functions; a raised exception is a    *)
(* record of kind "error".                                                 *)
(***************************************************************************)
EXTENDS Integers, Sequences, FiniteSets, TLC

None == <<"None">>

\* Python truthiness of a string-or-None value, and `a or b`.
Truthy(v) == v # None /\ v # <<>>

Or(a, b) == IF Truthy(a) THEN a ELSE b

\* s.find(ch, start) for a one-character ch (0-based, -1 when absent)
Find(s, ch, start) ==
    LET idx == {i \in start..(Len(s) - 1) : s[i + 1] = ch}
    IN  IF idx = {} THEN -1
        ELSE CHOOSE i \in idx : \A j \in idx : i <= j

\* s[a:b] and s[a:] for 0 <= a
Slice(s, a, b) == SubSeq(s, a + 1, b)

SliceFrom(s, a) == SubSeq(s, a + 1, Len(s))

\* s[:-1]
DropLast(s) == SubSeq(s, 1, Len(s) - 1)

EndsWith(s, ch) == Len(s) > 0 /\ s[Len(s)] = ch

StartsWith(s, p) == Len(p) <= Len(s) /\ SubSeq(s, 1, Len(p)) = p

\* s.replace(ch, r) for a one-character ch
RECURSIVE Replace(_, _, _)
Replace(s, ch, r) ==
    IF s = <<>> THEN <<>>
    ELSE (IF Head(s) = ch THEN r ELSE <<Head(s)>>) \o Replace(Tail(s), ch, r)

\* d.get(k, default) on a dictionary
Get(d, k, default) == IF k \in DOMAIN d THEN d[k] ELSE default

EmptyDict == <<>>

\* d with d[k] = v
DictSet(d, k, v) == [x \in (DOMAIN d) \cup {k} |-> IF x = k THEN v ELSE d[x]]

Error(exc) == [kind |-> "error", exc |-> exc]

IsError(v) == v.kind = "error"

\* a name mapping (a Python dict of nodes) as a grammar node
DictNode(m) == [kind |-> "dict", map |-> m]

\* the pycadf taxonomy values the module uses
UNKNOWN == <<"unknown">>

ACTION_CREATE == <<"create">>

ACTION_READ == <<"read">>

ACTION_LIST == <<"read", "/", "list">>

ACTION_UPDATE == <<"update">>

ACTION_DELETE == <<"delete">>

OUTCOME_SUCCESS == <<"success">>

OUTCOME_FAILURE == <<"failure">>

ACCOUNT_USER == <<"service", "/", "security", "/", "account", "/", "user">>

EVENTTYPE_ACTIVITY == <<"activity">>

ResourceSpec(type_uri, el_type_uri, singleton, custom_actions, children) ==
    [kind |-> "spec", type_uri |-> type_uri, el_type_uri |-> el_type_uri,
     singleton |-> singleton, custom_actions |-> custom_actions,
     children |-> children]

(***************************************************************************)
(* _put_hier: dct is a node.  Indexing or assigning into a ResourceSpec    *)
(* (a namedtuple) raises TypeError.                                        *)
(***************************************************************************)
RECURSIVE _put_hier(_, _, _)
_put_hier(dct, hier_name, object) ==
    LET pos == Find(hier_name, "/", 0)
    IN  IF dct.kind # "dict" THEN Error("TypeError")
        ELSE IF pos >= 0
        THEN LET segment == Slice(hier_name, 0, pos)
                 rest == SliceFrom(hier_name, pos + 1)
                 d1 == IF segment \notin DOMAIN dct.map
                       THEN DictSet(dct.map, segment, DictNode(EmptyDict))
                       ELSE dct.map
                 sub == _put_hier(d1[segment], rest, object)
             IN  IF IsError(sub) THEN sub
                 ELSE DictNode(DictSet(d1, segment, sub))
        ELSE DictNode(DictSet(dct.map, hier_name, object))

\* the iteration orders of a dictionary's keys (dict.iteritems)
Orders(keys) ==
    {o \in [1..Cardinality(keys) -> keys] :
        \A i, j \in 1..Cardinality(keys) : i # j => o[i] # o[j]}

\* a raw YAML value that is None or an empty mapping
RawNone == [yaml_null |-> TRUE]

Falsy(s) == s = RawNone \/ DOMAIN s = {}

\* the choice functions of a family of sets
Choices(fam) ==
    {f \in [DOMAIN fam -> UNION {fam[k] : k \in DOMAIN fam}] :
        \A k \in DOMAIN fam : f[k] \in fam[k]}

(***************************************************************************)
(* _parse_resources: the set of its possible outcomes (a dict node or a    *)
(* TypeError), one for every order in which the items of res_dict, and of  *)
(* every nested children mapping, can be iterated.                         *)
(***************************************************************************)
RECURSIVE PutAll(_, _, _, _)
PutAll(result, order, specs, i) ==
    IF i > Len(order) THEN result
    ELSE IF IsError(specs[order[i]]) THEN specs[order[i]]
    ELSE LET r == _put_hier(result, order[i], specs[order[i]])
         IN  IF IsError(r) THEN r ELSE PutAll(r, order, specs, i + 1)

RECURSIVE _parse_resources(_, _, _)
_parse_resources(res_dict, parentTypeURI, service_type) ==
    LET names == DOMAIN res_dict
        Raw(name) == IF Falsy(res_dict[name]) THEN EmptyDict
                     ELSE res_dict[name]
        pfx == IF Truthy(parentTypeURI) THEN parentTypeURI ELSE service_type
        Singleton(name) == Get(Raw(name), "singleton", FALSE)
        TypeUri(name) == Get(Raw(name), "type_uri", pfx \o <<"/">> \o name)
        ElTypeUri(name) == IF ~Singleton(name)
                           THEN TypeUri(name) \o <<"/">> \o DropLast(name)
                           ELSE None
        kids == [name \in names |->
                   _parse_resources(Get(Raw(name), "children", EmptyDict),
                                    TypeUri(name), service_type)]
        Spec_(name, children) ==
            IF IsError(children) THEN children
            ELSE ResourceSpec(TypeUri(name), ElTypeUri(name), Singleton(name),
                              Get(Raw(name), "custom_actions", EmptyDict),
                              children)
    IN  { PutAll(DictNode(EmptyDict), order,
                 [name \in names |-> Spec_(name, ch[name])], 1) :
            order \in Orders(names), ch \in Choices(kids) }


(***************************************************************************)
(* The configurations, requests and responses the model draws from.        *)
(***************************************************************************)
servers == <<"server", "s">>

volumes == <<"volume", "s">>

limits == <<"limit", "s">>

os == <<"os">>

os_keys == <<"os", "/", "key", "s">>

os_hosts == <<"os", "/", "host", "s">>

keys_ == <<"key", "s">>

abc == <<"abc">>

reboot == <<"reboot">>

detail == <<"detail">>

sentinel == <<"action">>

\* servers with a child collection, and a singleton
ResPlain ==
    (servers :> [children |-> (volumes :> RawNone)]) @@
    (limits :> [singleton |-> TRUE])

\* a custom-action table with an exact key and a wildcard template
ResWildcard ==
    (servers :> [custom_actions |->
                    (reboot :> <<"compute:", "restart">>) @@
                    (<<"*">> :> <<"compute:", "*", "/", "*">>)])

\* a custom-action table without a wildcard
ResFilter ==
    (servers :> [custom_actions |->
                    (reboot :> <<"compute:", "restart">>) @@
                    (detail :> ACTION_LIST),
                 children |-> (volumes :> [singleton |-> TRUE])])

\* a custom-action table whose wildcard, and one key, is the empty string
ResSuppress ==
    (servers :> [custom_actions |-> (<<"*">> :> <<>>) @@ (reboot :> <<>>)])

\* hierarchical keys at the root and in a children mapping
ResHier ==
    (servers :> [children |-> (os_keys :> RawNone)]) @@
    (os_hosts :> [type_uri |-> <<"compute", "/", "host", "s">>])

\* a key that is a prefix of another key
ResPrefix ==
    (os :> RawNone) @@ (os_hosts :> RawNone)

Conf(resources) ==
    [service_type |-> <<"compute">>, service_name |-> <<"nova">>,
     prefix |-> <<"/", "v2", "/", "{project_id}">>, resources |-> resources]

Configs ==
    { Conf(r) : r \in {ResPlain, ResWildcard, ResFilter, ResSuppress,
                       ResHier, ResPrefix} }
    \cup { [service_type |-> <<"compute">>, service_name |-> <<"nova">>,
            resources |-> ResPlain] }

RequiredKeys == {"service_type", "service_name", "prefix", "resources"}

\* a JSON body: not parseable, or a mapping with its keys in iteration order
Invalid == [valid |-> FALSE]

Json(ks, dict) == [valid |-> TRUE, keys |-> ks, dict |-> dict]

\* Python None where an object is expected
NoneObj == [kind |-> "None"]

NoResponse == [present |-> FALSE]

Response(status_int, json) ==
    [present |-> TRUE, status_int |-> status_int, json |-> json]

\* the request view: path_qs and path_url are derived from the path
Request(method, rpath, environ, json) ==
    [kind |-> "request", method |-> method, path |-> rpath,
     path_qs |-> rpath, path_url |-> <<"http://host">> \o rpath,
     environ |-> environ, json |-> json]

\* the longest path, in segments, of the exhaustive family of requests
MaxSegs == 3

Tokens == {servers, volumes, limits, os, abc, reboot, sentinel, <<>>}

RECURSIVE Join(_)
Join(segs) == IF segs = <<>> THEN <<>>
              ELSE <<"/">> \o Head(segs) \o Join(Tail(segs))

SegPaths == UNION { {Join(s) : s \in [1..n -> Tokens]} : n \in 0..MaxSegs }

P1Environ == [HTTP_X_PROJECT_ID |-> <<"p1">>]

P1Prefix == <<"/", "v2", "/", "p1">>

RebootBody == Json(<<reboot, <<"force">>>>, (reboot :> <<>>) @@ (<<"force">> :> <<>>))

Methods == {"GET", "POST", "PUT", "PATCH", "DELETE", "HEAD", "OPTIONS"}

RequestBodies == {Invalid, Json(<<>>, EmptyDict), RebootBody,
                  Json(<<detail>>, (detail :> <<>>))}

ResponseBodies ==
    {Invalid, Json(<<>>, EmptyDict),
     Json(<<<<"id">>, <<"name">>>>, (<<"id">> :> <<"x1">>) @@ (<<"name">> :> <<"foo">>)),
     Json(<<<<"displayName">>, <<"id">>>>,
          (<<"id">> :> <<"x2">>) @@ (<<"displayName">> :> <<"bar">>)),
     Json(<<<<"error">>>>, (<<"error">> :> <<"boom">>))}

Statuses == {199, 200, 399, 400}

Responses ==
    {NoResponse} \cup {Response(s, b) : s \in Statuses, b \in ResponseBodies}

\* the paths of the second family, after the prefix
KeyPaths ==
    {Join(<<servers>>), Join(<<servers, abc>>), Join(<<servers, abc, sentinel>>),
     Join(<<servers, abc, detail>>), Join(<<servers, abc, volumes>>),
     Join(<<servers, abc, <<"*">>>>), Join(<<limits, reboot>>),
     Join(<<servers, abc, os, keys_>>), Join(<<servers, abc, os>>),
     Join(<<servers, abc>>) \o <<"/">>}

\* every path with GET and POST; the key paths with every method, body and
\* response; and requests outside the prefix or without a project id
RequestCases ==
    { <<Request(m, P1Prefix \o p, P1Environ, RebootBody), r>> :
        m \in {"GET", "POST"}, p \in SegPaths,
        r \in {NoResponse, Response(200, Invalid)} }
    \cup
    { <<Request(m, P1Prefix \o p, P1Environ, b), r>> :
        m \in Methods, p \in KeyPaths, b \in RequestBodies, r \in Responses }
    \cup
    { <<Request("GET", p \o Join(<<servers, abc>>), e, Invalid), NoResponse>> :
        p \in {P1Prefix, <<"/", "v2", "/", "d1">>, <<"/", "v2", "/", "unknown">>,
               <<"/", "v3">>},
        e \in {P1Environ, [HTTP_X_DOMAIN_ID |-> <<"d1">>], EmptyDict} }


(***************************************************************************)
(* The pure helpers of the event builder.                                  *)
(***************************************************************************)
HasAttr(o, a) == a \in DOMAIN o

Resource(id, typeURI, name) ==
    [kind |-> "resource", id |-> id, typeURI |-> typeURI, name |-> name]

\* str(n) for n >= 0
RECURSIVE Str(_)
Str(n) ==
    LET d == <<"0", "1", "2", "3", "4", "5", "6", "7", "8", "9">>
    IN  IF n < 10 THEN <<d[n + 1]>> ELSE Str(n \div 10) \o <<d[(n % 10) + 1]>>

ProjectOrDomainId(request) ==
    Or(Get(request.environ, "HTTP_X_PROJECT_ID", None),
       Get(request.environ, "HTTP_X_DOMAIN_ID", UNKNOWN))

\* the stripped path, or None when the prefix is missing
_strip_url_prefix(request, prefix_template) ==
    LET prefix == Replace(prefix_template, "{project_id}",
                          ProjectOrDomainId(request))
    IN  IF StartsWith(request.path, prefix)
        THEN SliceFrom(request.path, Len(prefix))
        ELSE None

\* _get_custom_action with the wildcard looked up before the exact key
_get_custom_action_wildcard_first(res_spec, action_suffix, request, interned) ==
    LET payload == request.json
        rest_action == IF action_suffix = sentinel
                       THEN payload.keys[1]
                       ELSE action_suffix
        action == Get(res_spec.custom_actions, rest_action, None)
        generic == Get(res_spec.custom_actions, <<"*">>, None)
    IN  IF action_suffix = sentinel /\ ~payload.valid
        THEN [action |-> None, rest_action |-> <<>>]
        ELSE IF action_suffix = sentinel /\ payload.keys = <<>>
        THEN [action |-> None, rest_action |-> <<>>]
        ELSE IF generic # None /\ (generic # <<>> \/ ~interned)
        THEN [action |-> Replace(generic, "*", rest_action),
              rest_action |-> rest_action]
        ELSE IF action # None
        THEN [action |-> action, rest_action |-> rest_action]
        ELSE IF DOMAIN res_spec.custom_actions = {}
        THEN [action |-> ACTION_UPDATE \o <<"/">> \o rest_action,
              rest_action |-> rest_action]
        ELSE [action |-> None, rest_action |-> rest_action]

\* _get_custom_action without the sentinel: the suffix is always the token
_get_custom_action_no_sentinel(res_spec, action_suffix, request, interned) ==
    LET rest_action == action_suffix
        action == Get(res_spec.custom_actions, rest_action, None)
        generic == Get(res_spec.custom_actions, <<"*">>, None)
    IN  IF action # None
        THEN [action |-> action, rest_action |-> rest_action]
        ELSE IF generic # None /\ (generic # <<>> \/ ~interned)
        THEN [action |-> Replace(generic, "*", rest_action),
              rest_action |-> rest_action]
        ELSE IF DOMAIN res_spec.custom_actions = {}
        THEN [action |-> ACTION_UPDATE \o <<"/">> \o rest_action,
              rest_action |-> rest_action]
        ELSE [action |-> None, rest_action |-> rest_action]

\* the action and the raw token (rest_action) of a custom-action lookup;
\* interned tells whether `action is not ''` is false for an empty string
_get_custom_action(res_spec, action_suffix, request, interned) ==
    LET payload == request.json
        rest_action == IF action_suffix = sentinel
                       THEN payload.keys[1]
                       ELSE action_suffix
        action == Get(res_spec.custom_actions, rest_action, None)
        generic == Get(res_spec.custom_actions, <<"*">>, None)
    IN  IF action_suffix = sentinel /\ ~payload.valid
        THEN [action |-> None, rest_action |-> <<>>]
        ELSE IF action_suffix = sentinel /\ payload.keys = <<>>
        THEN [action |-> None, rest_action |-> <<>>]
        ELSE IF action # None
        THEN [action |-> action, rest_action |-> rest_action]
        ELSE IF generic # None /\ (generic # <<>> \/ ~interned)
        THEN [action |-> Replace(generic, "*", rest_action),
              rest_action |-> rest_action]
        ELSE IF DOMAIN res_spec.custom_actions = {}
        THEN [action |-> ACTION_UPDATE \o <<"/">> \o rest_action,
              rest_action |-> rest_action]
        ELSE [action |-> None, rest_action |-> rest_action]

\* _get_action with the two GET actions exchanged
_get_action_swapped(res_spec, res_id, request, action_suffix, interned) ==
    LET method == request.method
        plain(a) == [action |-> a, rest_action |-> <<>>]
    IN  IF method = "POST"
        THEN IF action_suffix = None THEN plain(ACTION_CREATE)
             ELSE _get_custom_action(res_spec, action_suffix, request, interned)
        ELSE IF method = "GET"
        THEN IF action_suffix = None
             THEN plain(IF Truthy(res_id) THEN ACTION_LIST ELSE ACTION_READ)
             ELSE _get_custom_action(res_spec, action_suffix, request, interned)
        ELSE IF method = "PUT" \/ method = "PATCH" THEN plain(ACTION_UPDATE)
        ELSE IF method = "DELETE" THEN plain(ACTION_DELETE)
        ELSE IF method = "HEAD" THEN plain(ACTION_READ)
        ELSE plain(None)

_get_action(res_spec, res_id, request, action_suffix, interned) ==
    LET method == request.method
        plain(a) == [action |-> a, rest_action |-> <<>>]
    IN  IF method = "POST"
        THEN IF action_suffix = None THEN plain(ACTION_CREATE)
             ELSE _get_custom_action(res_spec, action_suffix, request, interned)
        ELSE IF method = "GET"
        THEN IF action_suffix = None
             THEN plain(IF Truthy(res_id) THEN ACTION_READ ELSE ACTION_LIST)
             ELSE _get_custom_action(res_spec, action_suffix, request, interned)
        ELSE IF method = "PUT" \/ method = "PATCH" THEN plain(ACTION_UPDATE)
        ELSE IF method = "DELETE" THEN plain(ACTION_DELETE)
        ELSE IF method = "HEAD" THEN plain(ACTION_READ)
        ELSE plain(None)

\* reads res_spec.type_uri and req.path_url: an argument without the
\* attribute raises AttributeError
_build_target_service_resource(res_spec, req, service_name) ==
    IF ~HasAttr(res_spec, "type_uri") THEN Error("AttributeError")
    ELSE IF ~HasAttr(req, "path_url") THEN Error("AttributeError")
    ELSE [kind |-> "resource", id |-> service_name,
          typeURI |-> <<"service", "/">> \o res_spec.type_uri,
          name |-> None, addresses |-> <<req.path_url>>]

\* lines 284-297: the initiator, from the identity headers
Initiator(request) ==
    [typeURI |-> ACCOUNT_USER,
     id |-> Get(request.environ, "HTTP_X_USER_ID", UNKNOWN),
     name |-> Get(request.environ, "HTTP_X_USER_NAME", UNKNOWN),
     project_id |-> ProjectOrDomainId(request)]

\* ActionResult with 400 counted as a success
ActionResult_inclusive(response) ==
    IF response.present
    THEN IF 200 <= response.status_int /\ response.status_int <= 400
         THEN OUTCOME_SUCCESS ELSE OUTCOME_FAILURE
    ELSE UNKNOWN

\* lines 299-310: the outcome
ActionResult(response) ==
    IF response.present
    THEN IF 200 <= response.status_int /\ response.status_int < 400
         THEN OUTCOME_SUCCESS ELSE OUTCOME_FAILURE
    ELSE UNKNOWN

\* lines 300-308: the reason
EventReason(response) ==
    IF response.present
    THEN [kind |-> "reason", reasonType |-> <<"HTTP">>,
          reasonCode |-> Str(response.status_int)]
    ELSE NoneObj

\* IdTarget with the two type URIs exchanged
IdTarget_swapped(res_spec, res_id, action) ==
    IF ~HasAttr(res_spec, "singleton") THEN Error("AttributeError")
    ELSE Resource(res_id,
                  IF action = ACTION_LIST \/ res_spec.singleton
                  THEN res_spec.el_type_uri
                  ELSE res_spec.type_uri,
                  None)

\* lines 314-319: the target of an event with an id
IdTarget(res_spec, res_id, action) ==
    IF ~HasAttr(res_spec, "singleton") THEN Error("AttributeError")
    ELSE Resource(res_id,
                  IF action = ACTION_LIST \/ res_spec.singleton
                  THEN res_spec.type_uri
                  ELSE res_spec.el_type_uri,
                  None)

\* _create_event after the action is derived (lines 284-339); line 322
\* passes (request, res_spec) to _build_target_service_resource(res_spec, req)
_create_event(res_spec, res_id, request, response, action, service_name) ==
    LET target ==
            IF Truthy(res_id)
            THEN IdTarget(res_spec, res_id, action)
            ELSE _build_target_service_resource(request, res_spec, service_name)
    IN  IF IsError(target) THEN target
        ELSE [kind |-> "event", eventType |-> EVENTTYPE_ACTIVITY,
              outcome |-> ActionResult(response), action |-> action,
              initiator |-> Initiator(request),
              reason |-> EventReason(response),
              target |-> target, requestPath |-> request.path_qs]

\* lines 134-142: the target taken from the body of the response to a POST
PostOverride(event, res_node, request, response) ==
    IF request.method = "POST" /\ response.present
    THEN IF ~response.json.valid THEN Error("ValueError")
         ELSE IF response.json.keys = <<>> THEN event
         ELSE IF event.kind # "event" \/ ~HasAttr(res_node, "type_uri")
         THEN Error("AttributeError")
         ELSE LET payload == response.json.dict
                  name == IF Get(payload, <<"name">>, None) = None
                          THEN Get(payload, <<"displayName">>, None)
                          ELSE Get(payload, <<"name">>, None)
              IN  [event EXCEPT !.target =
                       Resource(Get(payload, <<"id">>, None),
                                res_node.type_uri, name)]
    ELSE event


(***************************************************************************)
(* The state: the middleware object, and the position of one call of       *)
(* create_event in _build_event's recursion.                               *)
(***************************************************************************)
VARIABLES
    pc,              \* "init", "ready", "build", "get_action", "assemble",
                     \* "override", "done", "failed"
    conf,            \* the loaded configuration
    _resource_specs, \* self._resource_specs
    request, response,
    path, cursor,    \* the stripped path and _build_event's cursor
    res_node, res_id, res_parent_id,
    action_suffix,   \* the action_suffix argument of _create_event
    ev_res_id,       \* the res_id argument of _create_event
    action,          \* the action _get_action returned
    rest_action,     \* the raw token of _get_custom_action
    event,           \* the event _create_event returned to _build_event
    result           \* what create_event returned or raised

vars == <<pc, conf, _resource_specs, request, response, path, cursor,
          res_node, res_id, res_parent_id, action_suffix, ev_res_id, action,
          rest_action, event, result>>

Pending == [kind |-> "pending"]

NoRequest == Request("", <<>>, EmptyDict, Invalid)

Idle ==
    /\ request = NoRequest /\ response = NoResponse
    /\ path = None /\ cursor = 0
    /\ res_node = NoneObj /\ res_id = None /\ res_parent_id = None
    /\ action_suffix = None /\ ev_res_id = None /\ action = None
    /\ rest_action = <<>> /\ event = NoneObj /\ result = Pending

Init ==
    /\ pc = "init"
    /\ conf = EmptyDict
    /\ _resource_specs = NoneObj
    /\ Idle

walkVars == <<path, cursor, res_node, res_id, res_parent_id>>

callVars == <<action_suffix, ev_res_id, action, rest_action, event>>

\* __init__: a missing key is a ConfigError, and an error of
\* _parse_resources leaves the constructor as it is
Construct ==
    /\ pc = "init"
    /\ \E c \in Configs :
         /\ conf' = c
         /\ IF RequiredKeys \subseteq DOMAIN c
            THEN \E r \in _parse_resources(c.resources, None, c.service_type) :
                   /\ _resource_specs' = r
                   /\ pc' = IF IsError(r) THEN "failed" ELSE "ready"
            ELSE /\ _resource_specs' = Error("ConfigError")
                 /\ pc' = "failed"
    /\ UNCHANGED <<request, response, walkVars, callVars, result>>

\* create_event, up to the first call of _build_event
CreateEvent ==
    /\ pc = "ready"
    /\ \E rc \in RequestCases :
         LET stripped == _strip_url_prefix(rc[1], conf.prefix)
         IN  /\ request' = rc[1]
             /\ response' = rc[2]
             /\ IF stripped = None
                THEN /\ result' = Error("AttributeError")
                     /\ pc' = "done"
                     /\ UNCHANGED walkVars
                ELSE /\ path' = IF EndsWith(stripped, "/")
                                THEN DropLast(stripped) ELSE stripped
                     /\ cursor' = 0
                     /\ res_node' = _resource_specs
                     /\ res_id' = None
                     /\ res_parent_id' = None
                     /\ pc' = "build"
                     /\ UNCHANGED result
    /\ UNCHANGED <<conf, _resource_specs, callVars>>

next_pos == Find(path, "/", cursor + 1)

token == IF next_pos # -1 THEN Slice(path, cursor + 1, next_pos)
         ELSE SliceFrom(path, cursor + 1)

\* children.get(token) is a ResourceSpec or a non-empty name mapping
HasChild(node, tok) ==
    /\ tok \in DOMAIN node.children.map
    /\ node.children.map[tok].kind = "dict" =>
           DOMAIN node.children.map[tok].map # {}

Finish(r) ==
    /\ result' = r
    /\ pc' = "done"

\* cursor == -1: the end of the path, _create_event is called
EndOfPath ==
    /\ pc = "build" /\ cursor = -1
    /\ ev_res_id' = Or(res_id, res_parent_id)
    /\ action_suffix' = None
    /\ pc' = "get_action"
    /\ UNCHANGED <<conf, _resource_specs, request, response, walkVars,
                   action, rest_action, event, result>>

\* LookupName with res_node[token] for res_node.get(token): a miss raises
LookupName_KeyError ==
    /\ pc = "build" /\ cursor # -1 /\ res_node.kind = "dict"
    /\ IF token \in DOMAIN res_node.map
       THEN /\ res_node' = res_node.map[token]
            /\ res_id' = None
            /\ res_parent_id' = None
            /\ cursor' = next_pos
            /\ UNCHANGED <<pc, result, path>>
       ELSE /\ Finish(Error("KeyError"))
            /\ UNCHANGED walkVars
    /\ UNCHANGED <<conf, _resource_specs, request, response, callVars>>

\* a name mapping: the token is a resource name
LookupName ==
    /\ pc = "build" /\ cursor # -1 /\ res_node.kind = "dict"
    /\ IF token \in DOMAIN res_node.map
       THEN /\ res_node' = res_node.map[token]
            /\ res_id' = None
            /\ res_parent_id' = None
            /\ cursor' = next_pos
            /\ UNCHANGED <<pc, result, path>>
       ELSE /\ Finish(NoneObj)
            /\ UNCHANGED walkVars
    /\ UNCHANGED <<conf, _resource_specs, request, response, callVars>>

\* a resource with an id, or a singleton: the token is a child
DescendChild ==
    /\ pc = "build" /\ cursor # -1 /\ res_node.kind = "spec"
    /\ Truthy(res_id) \/ res_node.singleton
    /\ HasChild(res_node, token)
    /\ res_node' = res_node.children.map[token]
    /\ res_id' = None
    /\ res_parent_id' = Or(res_id, res_parent_id)
    /\ cursor' = next_pos
    /\ UNCHANGED <<pc, conf, _resource_specs, request, response, path,
                   callVars, result>>

\* ... or, as the last segment, an action
ActionToken ==
    /\ pc = "build" /\ cursor # -1 /\ res_node.kind = "spec"
    /\ Truthy(res_id) \/ res_node.singleton
    /\ ~HasChild(res_node, token)
    /\ next_pos = -1
    /\ ev_res_id' = Or(res_id, res_parent_id)
    /\ action_suffix' = token
    /\ pc' = "get_action"
    /\ UNCHANGED <<conf, _resource_specs, request, response, walkVars,
                   action, rest_action, event, result>>

\* ... and anything else is an unexpected continuation
Unexpected ==
    /\ pc = "build" /\ cursor # -1 /\ res_node.kind = "spec"
    /\ Truthy(res_id) \/ res_node.singleton
    /\ ~HasChild(res_node, token)
    /\ next_pos # -1
    /\ Finish(NoneObj)
    /\ UNCHANGED <<conf, _resource_specs, request, response, walkVars,
                   callVars>>

\* a resource without an id: the token is the id
BindId ==
    /\ pc = "build" /\ cursor # -1 /\ res_node.kind = "spec"
    /\ ~(Truthy(res_id) \/ res_node.singleton)
    /\ res_id' = token
    /\ cursor' = next_pos
    /\ UNCHANGED <<pc, conf, _resource_specs, request, response, path,
                   res_node, res_parent_id, callVars, result>>

\* where _create_event returns to: line 134 when it was called at the end
\* of the path, create_event's caller otherwise
Returned(ev) ==
    IF action_suffix = None
    THEN /\ event' = ev
         /\ pc' = "override"
         /\ UNCHANGED result
    ELSE /\ event' = ev
         /\ Finish(ev)

\* _create_event, lines 279-282
GetAction ==
    /\ pc = "get_action"
    /\ \E interned \in BOOLEAN :
         LET a == _get_action(res_node, ev_res_id, request, action_suffix,
                              interned)
         IN  /\ action' = a.action
             /\ rest_action' = a.rest_action
             /\ IF Truthy(a.action)
                THEN /\ pc' = "assemble"
                     /\ UNCHANGED <<event, result>>
                ELSE Returned(NoneObj)
    /\ UNCHANGED <<conf, _resource_specs, request, response, walkVars,
                   action_suffix, ev_res_id>>

\* _create_event, lines 284-339
Assemble ==
    /\ pc = "assemble"
    /\ LET ev == _create_event(res_node, ev_res_id, request, response, action,
                               conf.service_name)
       IN  IF IsError(ev)
           THEN /\ Finish(ev)
                /\ UNCHANGED event
           ELSE Returned(ev)
    /\ UNCHANGED <<conf, _resource_specs, request, response, walkVars,
                   action_suffix, ev_res_id, action, rest_action>>

\* _build_event, lines 134-142
Override ==
    /\ pc = "override"
    /\ Finish(PostOverride(event, res_node, request, response))
    /\ UNCHANGED <<conf, _resource_specs, request, response, walkVars,
                   callVars>>

\* the call is over; the middleware object is as it was before the call
Return ==
    /\ pc = "done"
    /\ pc' = "ready"
    /\ request' = NoRequest /\ response' = NoResponse
    /\ path' = None /\ cursor' = 0
    /\ res_node' = NoneObj /\ res_id' = None /\ res_parent_id' = None
    /\ action_suffix' = None /\ ev_res_id' = None /\ action' = None
    /\ rest_action' = <<>> /\ event' = NoneObj /\ result' = Pending
    /\ UNCHANGED <<conf, _resource_specs>>

Next ==
    \/ Construct
    \/ CreateEvent
    \/ EndOfPath
    \/ LookupName
    \/ DescendChild
    \/ ActionToken
    \/ Unexpected
    \/ BindId
    \/ GetAction
    \/ Assemble
    \/ Override
    \/ Return

Spec == Init /\ [][Next]_vars


(***************************************************************************)
(* The properties.                                                         *)
(***************************************************************************)

\* p[1:].split('/'): the segments of a path that starts with a slash
RECURSIVE Split(_)
Split(s) ==
    LET pos == Find(s, "/", 0)
    IN  IF pos = -1 THEN <<s>>
        ELSE <<Slice(s, 0, pos)>> \o Split(SliceFrom(s, pos + 1))

Segs(p) == Split(SliceFrom(p, 1))

\* a call of create_event is over, and its prefix matched
Walked == pc = "done" /\ path # None

(* C1: create_event never ends in a raised error, whatever the grammar,    *)
(* the method, the path (inside or outside the URL prefix) and the bodies. *)
C1_NeverRaises == pc = "done" => result.kind # "error"

\* Whether the walk of segments segs from node is unmappable: a miss in a
\* name mapping, or, at a resource with a (non-empty) bound id or at a
\* singleton, a segment that is no child name and is not the last one.
RECURSIVE Unmappable(_, _, _)
Unmappable(node, bound, segs) ==
    IF segs = <<>> THEN FALSE
    ELSE IF node.kind = "dict"
    THEN IF Head(segs) \notin DOMAIN node.map THEN TRUE
         ELSE Unmappable(node.map[Head(segs)], FALSE, Tail(segs))
    ELSE IF bound \/ node.singleton
    THEN IF Head(segs) \in DOMAIN node.children.map
         THEN Unmappable(node.children.map[Head(segs)], FALSE, Tail(segs))
         ELSE Len(segs) > 1
    ELSE Unmappable(node, Head(segs) # <<>>, Tail(segs))

(* C2: a request whose prefix-stripped path (less one trailing slash) is   *)
(* unmappable gets no event: create_event returns None.                    *)
C2_UnmappableNoEvent ==
    (Walked /\ Unmappable(_resource_specs, FALSE, Segs(path)))
        => result = NoneObj

\* an unexpected continuation after a bound id was answered with no event
C2_Witness ==
    /\ Walked /\ Unmappable(_resource_specs, FALSE, Segs(path))
    /\ res_node.kind = "spec" /\ Truthy(res_id)
    /\ Len(Segs(path)) >= 3
    /\ result = NoneObj

\* the action of the method table, without an action suffix
MethodAction(method, bound) ==
    CASE method = "POST" -> ACTION_CREATE
      [] method = "GET" -> IF bound THEN ACTION_READ ELSE ACTION_LIST
      [] method \in {"PUT", "PATCH"} -> ACTION_UPDATE
      [] method = "DELETE" -> ACTION_DELETE
      [] method = "HEAD" -> ACTION_READ
      [] OTHER -> None

\* the walk reached the end of the path and _get_action has returned
EndReached == cursor = -1 /\ pc \in {"assemble", "override", "done"}

Looked ==
    /\ pc \in {"assemble", "done"} /\ action_suffix # None
    /\ request.method \in {"POST", "GET"}
    /\ ~(action_suffix = sentinel
         /\ (~request.json.valid \/ request.json.keys = <<>>))

(* C4: the custom-action lookup of token t in table T returns T[t] when t  *)
(* is a key; else T["*"] with every * replaced by t when that entry is     *)
(* non-empty; else update/t when the resource has no table; else no        *)
(* action, and then no event is emitted.                                   *)
C4_LookupPrecedence ==
    Looked =>
        LET T == res_node.custom_actions
            t == rest_action
        IN  /\ IF t \in DOMAIN T THEN action = T[t]
               ELSE IF <<"*">> \in DOMAIN T /\ T[<<"*">>] # <<>>
               THEN action = Replace(T[<<"*">>], "*", t)
               ELSE IF DOMAIN T = {}
               THEN action = ACTION_UPDATE \o <<"/">> \o t
               ELSE ~Truthy(action)
            /\ ~Truthy(action) => (pc = "done" /\ result = NoneObj)
            /\ (pc = "done" /\ result.kind = "event") => result.action = action

\* token abc, not a key of a table with a wildcard, was substituted
C4_Witness ==
    /\ Looked /\ pc = "done"
    /\ rest_action = abc
    /\ abc \notin DOMAIN res_node.custom_actions
    /\ <<"*">> \in DOMAIN res_node.custom_actions
    /\ result.kind = "event"
    /\ result.action = <<"compute:", "abc", "/", "abc">>

(* C5: the action token is the last segment of the path, which follows a   *)
(* bound id or a singleton and is no child name; the token of the lookup   *)
(* is that segment, or, when the segment is "action", the first key of the *)
(* request body, and an empty or unparseable body gets no event.           *)
C5_ActionToken ==
    (pc \in {"assemble", "done"} /\ action_suffix # None
     /\ request.method \in {"POST", "GET"}) =>
        /\ action_suffix = Segs(path)[Len(Segs(path))]
        /\ Truthy(res_id) \/ res_node.singleton
        /\ action_suffix \notin DOMAIN res_node.children.map
        /\ IF action_suffix # sentinel THEN rest_action = action_suffix
           ELSE IF request.json.valid /\ request.json.keys # <<>>
           THEN rest_action = request.json.keys[1]
           ELSE pc = "done" /\ result = NoneObj

\* POST .../abc/action with body {"reboot": ...} and no table: update/reboot
C5_Witness ==
    /\ pc = "done" /\ request.method = "POST"
    /\ action_suffix = sentinel /\ rest_action = reboot
    /\ request.json.keys[1] = reboot
    /\ result.kind = "event"
    /\ result.action = <<"update", "/", "reboot">>

(* C6: a GET whose path ends at the name of a non-singleton collection,    *)
(* at any depth, returns an event with action list and the collection's    *)
(* typeURI as target type.                                                 *)
C6_CollectionList ==
    (pc = "done" /\ cursor = -1 /\ request.method = "GET"
     /\ res_node.kind = "spec" /\ res_id = None /\ ~res_node.singleton) =>
        /\ result.kind = "event"
        /\ result.action = ACTION_LIST
        /\ result.target.typeURI = res_node.type_uri

\* the POST override of lines 134-142 replaced the target
Overridden ==
    /\ cursor = -1 /\ request.method = "POST" /\ response.present
    /\ response.json.valid /\ response.json.keys # <<>>

\* the top-level collections of the configuration with default type URIs
PlainCollections ==
    {n \in DOMAIN conf.resources :
        /\ Find(n, "/", 0) = -1
        /\ \/ Falsy(conf.resources[n])
           \/ /\ "type_uri" \notin DOMAIN conf.resources[n]
              /\ "singleton" \notin DOMAIN conf.resources[n]}

(* C7: an emitted event with a bound id, the POST override apart, has the  *)
(* bound id as target id, and as target type the collection typeURI when   *)
(* the action is list or the resource a singleton, the elementTypeURI      *)
(* otherwise; GET <collection>/<id> is read on <typeURI>/<singular>.       *)
C7_IdTarget ==
    /\ (pc = "done" /\ result.kind = "event" /\ ~Overridden
        /\ (Truthy(res_id) \/ Truthy(res_parent_id))) =>
           /\ result.target.id = Or(res_id, res_parent_id)
           /\ result.target.typeURI =
                  IF result.action = ACTION_LIST \/ res_node.singleton
                  THEN res_node.type_uri ELSE res_node.el_type_uri
           /\ res_node.singleton <=> res_node.el_type_uri = None
    /\ (Walked /\ request.method = "GET" /\ Len(Segs(path)) = 2
        /\ Segs(path)[1] \in PlainCollections /\ Segs(path)[2] # <<>>
        /\ ~IsError(_resource_specs)) =>
           /\ result.kind = "event"
           /\ result.action = ACTION_READ
           /\ result.target.id = Segs(path)[2]
           /\ result.target.typeURI =
                  conf.service_type \o <<"/">> \o Segs(path)[1] \o <<"/">>
                      \o DropLast(Segs(path)[1])

\* GET /servers/abc: read, compute/servers/server, abc
C7_Witness ==
    /\ pc = "done" /\ request.method = "GET"
    /\ path = <<"/", "server", "s", "/", "abc">>
    /\ result.kind = "event"
    /\ result.action = ACTION_READ
    /\ result.target.id = abc
    /\ result.target.typeURI = <<"compute", "/", "server", "s", "/", "server">>

(* C8: the outcome of an emitted event is success for a response status in *)
(* [200,400), failure for any other status, unknown without a response;    *)
(* the event has a reason (HTTP, the status code) iff there was a response.*)
C8_Outcome ==
    (pc = "done" /\ result.kind = "event") =>
        /\ result.outcome =
               IF ~response.present THEN UNKNOWN
               ELSE IF response.status_int \in 200..399 THEN OUTCOME_SUCCESS
               ELSE OUTCOME_FAILURE
        /\ result.reason # NoneObj <=> response.present
        /\ response.present =>
               /\ result.reason.reasonType = <<"HTTP">>
               /\ result.reason.reasonCode = Str(response.status_int)
               /\ response.status_int = 399 =>
                      result.reason.reasonCode = <<"3", "9", "9">>

\* a response with status 400 gave failure and a reason
C8_Witness ==
    /\ pc = "done" /\ result.kind = "event"
    /\ response.present /\ response.status_int = 400
    /\ result.outcome = OUTCOME_FAILURE
    /\ result.reason.reasonCode = <<"4", "0", "0">>


\* the response body carries a name or a displayName
NamedBody ==
    /\ response.json.valid
    /\ \/ <<"name">> \in DOMAIN response.json.dict
       \/ <<"displayName">> \in DOMAIN response.json.dict

(* C9: the event of a POST resolved at the end of the path takes the id    *)
(* and name of its target from the response body when the response is      *)
(* successful and the body has a name or displayName; with no response, an *)
(* unsuccessful one, or neither field, it keeps the target of the path.    *)
C9_PostOverride ==
    (pc = "done" /\ cursor = -1 /\ request.method = "POST"
     /\ result.kind = "event") =>
        IF /\ response.present
           /\ response.status_int \in 200..399
           /\ NamedBody
        THEN /\ result.target.id = Get(response.json.dict, <<"id">>, None)
             /\ result.target.name =
                    Or(Get(response.json.dict, <<"name">>, None),
                       Get(response.json.dict, <<"displayName">>, None))
        ELSE result.target = event.target

\* the node at the nested position segs of a name mapping, if any
RECURSIVE At(_, _)
At(node, segs) ==
    IF segs = <<>> THEN node
    ELSE IF node.kind = "dict" /\ Head(segs) \in DOMAIN node.map
    THEN At(node.map[Head(segs)], Tail(segs))
    ELSE NoneObj

\* every key of res_dict, and of the children below it, is compiled at the
\* nested position its segments name, and no key with a slash is a flat key
RECURSIVE Placed(_, _, _)
Placed(res_dict, node, pfx) ==
    \A k \in DOMAIN res_dict :
        LET raw == IF Falsy(res_dict[k]) THEN EmptyDict ELSE res_dict[k]
            n == At(node, Split(k))
        IN  /\ n.kind = "spec"
            /\ n.type_uri = Get(raw, "type_uri", pfx \o <<"/">> \o k)
            /\ Find(k, "/", 0) # -1 => k \notin DOMAIN node.map
            /\ Placed(Get(raw, "children", EmptyDict), n.children, n.type_uri)

(* C10: compiling places the spec of every key with slashes at the nested  *)
(* position its segments name, never as a flat key, and yields the same    *)
(* mapping in whatever order the keys are processed, also when one key is  *)
(* a prefix of another.                                                    *)
C10_HierarchicalCompile ==
    (pc \in {"ready", "failed"} /\ RequiredKeys \subseteq DOMAIN conf) =>
        /\ ~IsError(_resource_specs)
        /\ \A r \in _parse_resources(conf.resources, None, conf.service_type) :
               r = _resource_specs
        /\ Placed(conf.resources, _resource_specs, conf.service_type)


\* a step of the walk that leaves the current node for another one, with an
\* id (own or inherited) bound before the step
DescentWithId ==
    /\ pc = "build" /\ pc' = "build"
    /\ res_node' # res_node
    /\ Truthy(res_id) \/ Truthy(res_parent_id)

(* C11: every step of the walk that descends, from a resource or from an   *)
(* intermediate name mapping below it, keeps the id state: the node it     *)
(* reaches is processed with the bound id (own or inherited) as parent id. *)
C11_DescentKeepsId ==
    [][DescentWithId => res_parent_id' = Or(res_id, res_parent_id)]_vars

====
